---- MODULE Spec2Model ----
(***************************************************************************)
(* The Newel classroom application (src/app.py): Users, Prompts,          *)
(* Responses and Grades in a relational store, form-driven routes guarded *)
(* by role decorators, the grade upsert and the leaderboard query.        *)
(*                                                                         *)
(* A request is handled by one worker.  The two handlers that read the    *)
(* store and then write to it (register, grade_response) are modelled in  *)
(* two steps, the SELECT and the commit, so that two requests can          *)
(* interleave between them.  Every other handler touches the store once   *)
(* and is one step.                                                        *)
(*                                                                         *)
(* The session is the cookie of one browser: flask-login keeps the id of  *)
(* the logged-in user in it.  The browser may have two requests under way *)
(* at once, and it logs out and in again to act as another user.           *)
(*                                                                         *)
(* Timestamps, and the row lists the pages render, are left out: no        *)
(* property below is about the order of a listing.                         *)
(***************************************************************************)
EXTENDS Integers, Sequences, FiniteSets, TLC

\* ---------------------------------------------------------------- bounds
MaxUsers == 3
MaxPrompts == 1
MaxResponses == 1
MaxSeedResponses == 3

\* the workers of the server: each handles one request at a time
Workers == 1..2

\* ------------------------------------------------------ values and forms
\* request.form.get(k) of an absent field is None
Missing == "<None>"
\* an optional value: <<>> is None / NULL, <<v>> is v
None == <<>>
Some(v) == <<v>>

\* str.strip() on the strings the forms below submit
Strip(s) ==
  CASE s = " "   -> ""
    [] s = " a"  -> "a"
    [] s = "t "  -> "t"
    [] OTHER     -> s

\* `request.form.get(k) or ''` / `... or 'General'`
OrElse(s, d) == IF s = Missing \/ s = "" THEN d ELSE s

\* Python truthiness of form.get(k): None and '' are falsy
Truthy(s) == s # Missing /\ s # ""

\* int(s): Some(n), or None when it raises TypeError (None) or ValueError
ParseInt(s) ==
  CASE s = "-1"   -> Some(0 - 1)
    [] s = "0"    -> Some(0)
    [] s = "7"    -> Some(7)
    [] s = "100"  -> Some(100)
    [] s = " 100 " -> Some(100)
    [] s = "101"  -> Some(101)
    [] OTHER      -> None

\* generate_password_hash / check_password_hash (werkzeug, external)
PasswordHash(pw) == <<"hash", pw>>
CheckPassword(hash, pw) == hash = PasswordHash(pw)

RegisterForms ==
  { [name |-> " a",    password |-> "p",     user_type |-> "Teacher", year_level |-> Missing],
    [name |-> "b",     password |-> "p",     user_type |-> "Teacher", year_level |-> "7"],
    [name |-> "b",     password |-> "p",     user_type |-> "Admin",   year_level |-> Missing],
    [name |-> "s",     password |-> "p",     user_type |-> "Student", year_level |-> "7"],
    [name |-> "s",     password |-> "p",     user_type |-> "Student", year_level |-> "abc"],
    [name |-> "s",     password |-> "p",     user_type |-> "Student", year_level |-> Missing],
    [name |-> "s",     password |-> "p",     user_type |-> "Student", year_level |-> ""],
    [name |-> " ",     password |-> "p",     user_type |-> "Teacher", year_level |-> Missing],
    [name |-> Missing, password |-> "p",     user_type |-> "Student", year_level |-> "7"],
    [name |-> "a",     password |-> Missing, user_type |-> "Teacher", year_level |-> Missing],
    [name |-> "a",     password |-> "p",     user_type |-> Missing,   year_level |-> "abc"] }

LoginForms ==
  { [name |-> " a",    password |-> "p"],
    [name |-> "b",     password |-> "p"],
    [name |-> "s",     password |-> "p"],
    [name |-> "s",     password |-> "q"],
    [name |-> "zz",    password |-> "p"],
    [name |-> Missing, password |-> Missing] }

PromptForms ==
  { [title |-> "t ", content |-> "c", subject |-> Missing],
    [title |-> "t",  content |-> "c", subject |-> "Maths"],
    [title |-> " ",  content |-> "c", subject |-> Missing],
    [title |-> "t",  content |-> Missing, subject |-> Missing] }

ResponseForms == { "r", " ", Missing }

GradeForms ==
  { [score |-> "0",     feedback |-> "f"],
    [score |-> "0",     feedback |-> "g"],
    [score |-> "100",   feedback |-> "f"],
    [score |-> " 100 ", feedback |-> Missing],
    [score |-> "-1",    feedback |-> "f"],
    [score |-> "101",   feedback |-> "g"],
    [score |-> "abc",   feedback |-> "f"],
    [score |-> Missing, feedback |-> "f"] }

\* the form of a GET request has no fields
NoRegisterForm ==
  [name |-> Missing, password |-> Missing, user_type |-> Missing, year_level |-> Missing]
NoLoginForm == [name |-> Missing, password |-> Missing]
NoPromptForm == [title |-> Missing, content |-> Missing, subject |-> Missing]

\* ----------------------------------------------------------------- state
VARIABLES users, prompts, responses, grades, session, req, last

vars == <<users, prompts, responses, grades, session, req, last>>
store == <<users, prompts, responses, grades>>

Max(S) == IF S = {} THEN 0 ELSE CHOOSE x \in S : \A y \in S : y <= x

\* INTEGER PRIMARY KEY of a new row: the largest id in the table plus one
NextId(table) == Max({row.id : row \in table}) + 1

Idle ==
  [pc |-> "idle", op |-> "", user |-> 0, name |-> "", password |-> "",
   user_type |-> "", year_level |-> None, rid |-> 0, score |-> 0,
   feedback |-> "", existing |-> None]

NoResponse == [op |-> "", kind |-> "", to |-> "", flash |-> "", body |-> <<>>]

\* what a request answered: the route, the outcome, the redirect target (""
\* when a page or an error page is rendered), the flashed message where a
\* property needs it, and the rows the page shows
Answer(op, kind, to) ==
  [op |-> op, kind |-> kind, to |-> to, flash |-> "", body |-> <<>>]

Init ==
  /\ users = {}
  /\ prompts = {}
  /\ responses = {}
  /\ grades = {}
  /\ session = 0
  /\ req = [w \in Workers |-> Idle]
  /\ last = NoResponse

\* ------------------------------------------------- login loader and guards
\* load_user: User.query.get(int(user_id)); None makes the client anonymous
CurrentUser ==
  IF \E u \in users : u.id = session
  THEN Some(CHOOSE u \in users : u.id = session)
  ELSE None

IsAuthenticated == CurrentUser # None

UserType == IF IsAuthenticated THEN CurrentUser[1].user_type ELSE ""

\* @login_required over @teacher_required / @student_required: the redirect
\* target when the guards reject the request, "" when they let it through
\* (role "" is a route that has @login_required only)
\* (mutant: the decorator lets every logged-in user through)
teacher_required_AnyUser == IsAuthenticated

teacher_required == IsAuthenticated /\ UserType = "Teacher"

student_required == IsAuthenticated /\ UserType = "Student"

GuardRedirect(role) ==
  IF ~IsAuthenticated THEN "login"
  ELSE IF role = "Teacher" /\ ~teacher_required THEN "index"
  ELSE IF role = "Student" /\ ~student_required THEN "index"
  ELSE ""

\* a worker is free to take a request; the free worker with the least number
\* takes it
Accepting == \E w \in Workers : req[w].pc = "idle"

FreeWorker == CHOOSE w \in Workers : req[w].pc = "idle" /\ \A v \in Workers : req[v].pc = "idle" => w <= v

\* a guarded handler that only reads: Forbidden with the guard's redirect, or
\* the handler's answer
Completes(answer) ==
  /\ last' = answer
  /\ UNCHANGED <<session, req>>

\* ------------------------------------------------------------ GET routes
\* index: an authenticated client is sent to the teacher dashboard when its
\* user_type is 'Teacher' and to the student dashboard otherwise
IndexAnswer ==
  IF IsAuthenticated
  THEN Answer("index", "ok",
              IF UserType = "Teacher" THEN "teacher_dashboard"
                                         ELSE "student_dashboard")
  ELSE Answer("index", "ok", "")

\* teacher_dashboard / student_dashboard behind their decorators
DashboardAnswer(route) ==
  LET role == IF route = "teacher_dashboard" THEN "Teacher" ELSE "Student"
      g == GuardRedirect(role)
  IN IF g # "" THEN Answer(route, "Forbidden", g)
               ELSE Answer(route, "ok", "")

index ==
  /\ Accepting
  /\ Completes(IndexAnswer)
  /\ UNCHANGED store

teacher_dashboard ==
  /\ Accepting
  /\ Completes(DashboardAnswer("teacher_dashboard"))
  /\ UNCHANGED store

student_dashboard ==
  /\ Accepting
  /\ Completes(DashboardAnswer("student_dashboard"))
  /\ UNCHANGED store

\* prompts: the list of all prompts, for students
prompts_list ==
  /\ Accepting
  /\ LET g == GuardRedirect("Student")
     IN Completes(IF g # "" THEN Answer("prompts", "Forbidden", g)
                               ELSE Answer("prompts", "ok", ""))
  /\ UNCHANGED store

\* grade_responses: the responses of a prompt, for the teacher who owns it
grade_responses(prompt_id) ==
  /\ Accepting
  /\ LET g == GuardRedirect("Teacher")
         found == {p \in prompts : p.id = prompt_id}
     IN Completes(
          IF g # "" THEN Answer("grade_responses", "Forbidden", g)
          ELSE IF found = {} THEN Answer("grade_responses", "NotFound", "")
          ELSE IF (CHOOSE p \in found : TRUE).teacher_id # session
               THEN Answer("grade_responses", "Forbidden", "teacher_dashboard")
          ELSE Answer("grade_responses", "ok", ""))
  /\ UNCHANGED store

\* ------------------------------------------------------- login and logout
login(method, form) ==
  /\ Accepting
  /\ UNCHANGED <<store, req>>
  /\ IF method = "GET"
     THEN /\ last' = Answer("login", "ok", "")
          /\ UNCHANGED session
     ELSE LET name == Strip(OrElse(form.name, ""))
              password == OrElse(form.password, "")
              found == {u \in users : u.name = name}
          IN IF found # {} /\ CheckPassword((CHOOSE u \in found : TRUE).password_hash, password)
             THEN /\ session' = (CHOOSE u \in found : TRUE).id
                  /\ last' = Answer("login", "ok", "index")
             ELSE /\ last' = Answer("login", "InvalidCredentials", "")
                  /\ UNCHANGED session

logout ==
  /\ Accepting
  /\ UNCHANGED <<store, req>>
  /\ IF ~IsAuthenticated
     THEN /\ last' = Answer("logout", "Forbidden", "login")
          /\ UNCHANGED session
     ELSE /\ session' = 0
          /\ last' = Answer("logout", "ok", "index")

\* ----------------------------------------------------------- registration
\* the year_level of the form: int() is applied only to a non-empty field of
\* a Student form; [fault |-> TRUE] when int() raises
YearLevel(form) ==
  IF Truthy(form.year_level) /\ form.user_type = "Student"
  THEN [fault |-> ParseInt(form.year_level) = None, value |-> ParseInt(form.year_level)]
  ELSE [fault |-> FALSE, value |-> None]

\* register up to and including the lookup of the name (lines 105-122)
register(w, method, form) ==
  /\ Accepting /\ w = FreeWorker
  /\ UNCHANGED <<store, session>>
  /\ IF method = "GET"
     THEN /\ last' = Answer("register", "ok", "")
          /\ UNCHANGED req
     ELSE LET name == Strip(OrElse(form.name, ""))
              password == OrElse(form.password, "")
              user_type == form.user_type
              yl == YearLevel(form)
          IN IF yl.fault
             THEN /\ last' = Answer("register", "Fault", "")
                  /\ UNCHANGED req
             ELSE IF name = "" \/ password = "" \/ ~Truthy(user_type)
             THEN /\ last' = Answer("register", "ValidationError", "register")
                  /\ UNCHANGED req
             ELSE IF user_type = "Student" /\ yl.value = None
             THEN /\ last' = Answer("register", "ValidationError", "register")
                  /\ UNCHANGED req
             ELSE IF \E u \in users : u.name = name
             THEN /\ last' = Answer("register", "DuplicateName", "register")
                  /\ UNCHANGED req
             ELSE /\ Cardinality(users) < MaxUsers
                  /\ req' = [req EXCEPT ![w] =
                       [Idle EXCEPT !.pc = "commit", !.op = "register", !.name = name,
                                    !.password = password, !.user_type = user_type,
                                    !.year_level = yl.value]]
                  /\ UNCHANGED last

\* db.session.add(user); db.session.commit() (lines 124-129); the UNIQUE
\* constraint on user.name rejects the INSERT of a name that is taken
register_commit(w) ==
  /\ req[w].pc = "commit" /\ req[w].op = "register"
  /\ req' = [req EXCEPT ![w] = Idle]
  /\ UNCHANGED <<prompts, responses, grades, session>>
  /\ IF \E u \in users : u.name = req[w].name
     THEN /\ last' = Answer("register", "Fault", "")
          /\ UNCHANGED users
     ELSE /\ users' = users \cup
                {[id |-> NextId(users), name |-> req[w].name,
                  password_hash |-> PasswordHash(req[w].password),
                  user_type |-> req[w].user_type, year_level |-> req[w].year_level]}
          /\ last' = Answer("register", "ok", "login")

\* ------------------------------------------------- prompts and responses
create_prompt(method, form) ==
  /\ Accepting
  /\ UNCHANGED <<users, responses, grades, session, req>>
  /\ LET g == GuardRedirect("Teacher")
         title == Strip(OrElse(form.title, ""))
         content == Strip(OrElse(form.content, ""))
         subject == Strip(OrElse(form.subject, "General"))
     IN IF g # ""
        THEN /\ last' = Answer("create_prompt", "Forbidden", g)
             /\ UNCHANGED prompts
        ELSE IF method = "GET"
        THEN /\ last' = Answer("create_prompt", "ok", "")
             /\ UNCHANGED prompts
        ELSE IF title = "" \/ content = ""
        THEN /\ last' = Answer("create_prompt", "ValidationError", "create_prompt")
             /\ UNCHANGED prompts
        ELSE /\ Cardinality(prompts) < MaxPrompts
             /\ prompts' = prompts \cup
                  {[id |-> NextId(prompts), title |-> title, content |-> content,
                    subject |-> subject, teacher_id |-> session]}
             /\ last' = Answer("create_prompt", "ok", "teacher_dashboard")

view_prompt(prompt_id, method, form) ==
  /\ Accepting
  /\ UNCHANGED <<users, prompts, grades, session, req>>
  /\ LET g == GuardRedirect("Student")
         content == Strip(OrElse(form, ""))
     IN IF g # ""
        THEN /\ last' = Answer("view_prompt", "Forbidden", g)
             /\ UNCHANGED responses
        ELSE IF ~\E p \in prompts : p.id = prompt_id
        THEN /\ last' = Answer("view_prompt", "NotFound", "")
             /\ UNCHANGED responses
        ELSE IF method = "GET"
        THEN /\ last' = Answer("view_prompt", "ok", "")
             /\ UNCHANGED responses
        ELSE IF content = ""
        THEN /\ last' = Answer("view_prompt", "ValidationError", "view_prompt")
             /\ UNCHANGED responses
        ELSE /\ Cardinality(responses) < MaxResponses
             /\ responses' = responses \cup
                  {[id |-> NextId(responses), content |-> content,
                    prompt_id |-> prompt_id, student_id |-> session]}
             /\ last' = Answer("view_prompt", "ok", "student_dashboard")

\* ----------------------------------------------------------------- grading
\* the score check of grade_response (lines 233-241): int() and 0 <= score <= 100
\* (mutant: the lower limit is exclusive)
ScoreInRange_Exclusive(score) == 0 < score /\ score <= 100

ScoreInRange(score) == 0 <= score /\ score <= 100

ValidScore(score_raw) ==
  ParseInt(score_raw) # None /\ ScoreInRange(ParseInt(score_raw)[1])

\* Grade.query.filter_by(response_id=...).first(): the row as it was loaded
existing_grade(response_id) ==
  LET found == {g \in grades : g.response_id = response_id}
  IN IF found = {} THEN None ELSE Some(CHOOSE g \in found : TRUE)

\* (mutant: the check compares the current user with himself)
OwnerOf_Self(response_id) == session

\* the owning teacher of a response: response.prompt.teacher_id
OwnerOf(response_id) ==
  LET r == CHOOSE x \in responses : x.id = response_id
      p == CHOOSE x \in prompts : x.id = r.prompt_id
  IN p.teacher_id

\* grade_response up to and including the lookup of the grade (lines 226-243)
grade_response(w, response_id, form) ==
  /\ Accepting /\ w = FreeWorker
  /\ UNCHANGED <<store, session>>
  /\ LET g == GuardRedirect("Teacher")
         feedback == OrElse(form.feedback, "")
     IN IF g # ""
        THEN /\ last' = Answer("grade_response", "Forbidden", g)
             /\ UNCHANGED req
        ELSE IF ~\E r \in responses : r.id = response_id
        THEN /\ last' = Answer("grade_response", "NotFound", "")
             /\ UNCHANGED req
        ELSE IF OwnerOf(response_id) # session
        THEN /\ last' = Answer("grade_response", "Forbidden", "teacher_dashboard")
             /\ UNCHANGED req
        ELSE IF ~ValidScore(form.score)
        THEN /\ last' = Answer("grade_response", "ValidationError", "grade_responses")
             /\ UNCHANGED req
        ELSE /\ req' = [req EXCEPT ![w] =
                  [Idle EXCEPT !.pc = "commit", !.op = "grade_response",
                               !.user = session, !.rid = response_id,
                               !.score = ParseInt(form.score)[1],
                               !.feedback = feedback,
                               !.existing = existing_grade(response_id)]]
             /\ UNCHANGED last

\* (mutant: the update assigns the score and forgets the feedback)
FlushUpdate_ScoreOnly(loaded, score, feedback) ==
  { IF g.id = loaded.id THEN [g EXCEPT !.score = score] ELSE g : g \in grades }

\* the UPDATE the session flushes for a loaded row: it sets the columns whose
\* assigned value differs from the value the row was loaded with
FlushUpdate(loaded, score, feedback) ==
  { IF g.id = loaded.id
    THEN [g EXCEPT !.score = IF score # loaded.score THEN score ELSE @,
                   !.feedback_text = IF feedback # loaded.feedback_text THEN feedback ELSE @]
    ELSE g : g \in grades }

\* the INSERT of a new Grade row
InsertGrade(score, feedback, response_id) ==
  grades \cup {[id |-> NextId(grades), score |-> score, feedback_text |-> feedback,
                response_id |-> response_id]}

\* the upsert and db.session.commit() (lines 244-253); the UNIQUE constraint on
\* grade.response_id rejects a second row for the response, and an UPDATE of a
\* row that is gone fails the flush
grade_commit(w) ==
  /\ req[w].pc = "commit" /\ req[w].op = "grade_response"
  /\ req' = [req EXCEPT ![w] = Idle]
  /\ UNCHANGED <<users, prompts, responses, session>>
  /\ IF req[w].existing # None
     THEN IF \E g \in grades : g.id = req[w].existing[1].id
          THEN /\ grades' = FlushUpdate(req[w].existing[1], req[w].score, req[w].feedback)
               /\ last' = [Answer("grade_response", "ok", "grade_responses")
                              EXCEPT !.flash = "Grade updated."]
          ELSE /\ last' = Answer("grade_response", "Fault", "")
               /\ UNCHANGED grades
     ELSE IF \E g \in grades : g.response_id = req[w].rid
          THEN /\ last' = Answer("grade_response", "Fault", "")
               /\ UNCHANGED grades
          ELSE /\ grades' = InsertGrade(req[w].score, req[w].feedback, req[w].rid)
               /\ last' = Answer("grade_response", "ok", "grade_responses")

\* ------------------------------------------------------------- leaderboard
\* the rows of the join User - Response - Grade of one user
GradesOf(u) ==
  {g \in grades : \E r \in responses : r.id = g.response_id /\ r.student_id = u.id}

RECURSIVE SumScores(_)
SumScores(G) ==
  IF G = {} THEN 0
  ELSE LET g == CHOOSE x \in G : TRUE IN g.score + SumScores(G \ {g})

\* filter(user_type == 'Student'), group_by(User.id), having(count(Grade.id) > 0)
Groups ==
  { [id |-> u.id, name |-> u.name, year_level |-> u.year_level,
     total |-> SumScores(GradesOf(u)), count |-> Cardinality(GradesOf(u))] :
    u \in {x \in users : x.user_type = "Student" /\ Cardinality(GradesOf(x)) > 0} }

\* (mutant: the query orders by the average ascending)
AvgGeq_Ascending(a, b) == a.total * b.count <= b.total * a.count

\* avg(a) >= avg(b), on the exact quotients
AvgGeq(a, b) == a.total * b.count >= b.total * a.count

\* order_by(avg desc): every order of the groups that is non-increasing in
\* the average; the order among equal averages is the store's choice
QueryOrders ==
  LET n == Cardinality(Groups)
  IN { f \in [1..n -> Groups] :
         /\ \A i, j \in 1..n : i # j => f[i] # f[j]
         /\ \A i, j \in 1..n : i < j => AvgGeq(f[i], f[j]) }

\* round(avg_score, 2) in hundredths: the nearest hundredth of total/count,
\* a tie going to the even hundredth
Round2(total, count) ==
  LET q == (100 * total) \div count
      r == (100 * total) % count
  IN IF 2 * r < count THEN q
     ELSE IF 2 * r > count THEN q + 1
     ELSE IF q % 2 = 0 THEN q ELSE q + 1

\* leaderboard_data: enumerate(students_with_grades, start=1)
LeaderboardData(rows) ==
  [i \in 1..Len(rows) |->
     [rank |-> i, name |-> rows[i].name, year_level |-> rows[i].year_level,
      avg_score |-> Round2(rows[i].total, rows[i].count)]]

leaderboard ==
  /\ Accepting
  /\ UNCHANGED <<store, session, req>>
  /\ IF ~IsAuthenticated
     THEN last' = Answer("leaderboard", "Forbidden", "login")
     ELSE \E rows \in QueryOrders :
            last' = [Answer("leaderboard", "ok", "") EXCEPT !.body = LeaderboardData(rows)]

\* ------------------------------------------------------------------ cascades
\* (mutant: Response.grade without a cascade)
ResponseCascade_None(rs) == {}

\* cascade='all, delete-orphan' of Response.grade
ResponseCascade(rs) == {g \in grades : \E r \in rs : g.response_id = r.id}

\* cascade of Prompt.responses
PromptCascade(ps) == {r \in responses : \E p \in ps : r.prompt_id = p.id}

\* db.session.delete(prompt); db.session.commit()
delete_prompt(prompt_id) ==
  /\ \A w \in Workers : req[w].pc = "idle"
  /\ \E p \in prompts : p.id = prompt_id
  /\ LET ps == {p \in prompts : p.id = prompt_id}
         rs == PromptCascade(ps)
     IN /\ prompts' = prompts \ ps
        /\ responses' = responses \ rs
        /\ grades' = grades \ ResponseCascade(rs)
  /\ UNCHANGED <<users, session, req, last>>

\* db.session.delete(user); db.session.commit(): User.prompts and
\* User.responses cascade
delete_user(user_id) ==
  /\ \A w \in Workers : req[w].pc = "idle"
  /\ \E u \in users : u.id = user_id
  /\ LET ps == {p \in prompts : p.teacher_id = user_id}
         rs == {r \in responses : r.student_id = user_id} \cup PromptCascade(ps)
     IN /\ users' = {u \in users : u.id # user_id}
        /\ prompts' = prompts \ ps
        /\ responses' = responses \ rs
        /\ grades' = grades \ ResponseCascade(rs)
  /\ UNCHANGED <<session, req, last>>

\* ------------------------------------------------------------ specifications
PromptIds == 1..(MaxPrompts + 1)
ResponseIds == 1..(MaxResponses + 1)
UserIds == 1..MaxUsers

Index == index
Register ==
  \E w \in Workers : \/ register(w, "GET", NoRegisterForm)
                     \/ \E f \in RegisterForms : register(w, "POST", f)
RegisterCommit == \E w \in Workers : register_commit(w)
Login == login("GET", NoLoginForm) \/ \E f \in LoginForms : login("POST", f)
Logout == logout
TeacherDashboard == teacher_dashboard
StudentDashboard == student_dashboard
CreatePrompt ==
  create_prompt("GET", NoPromptForm) \/ \E f \in PromptForms : create_prompt("POST", f)
Prompts == prompts_list
ViewPrompt ==
  \E p \in PromptIds : \/ view_prompt(p, "GET", Missing)
                       \/ \E f \in ResponseForms : view_prompt(p, "POST", f)
GradeResponses == \E p \in PromptIds : grade_responses(p)
GradeResponse ==
  \E w \in Workers, r \in ResponseIds, f \in GradeForms : grade_response(w, r, f)
GradeCommit == \E w \in Workers : grade_commit(w)
Leaderboard == leaderboard
DeletePrompt == \E p \in PromptIds : delete_prompt(p)
DeleteUser == \E u \in UserIds : delete_user(u)

\* No request is between its lookup and its commit.
NoneInFlight == \A w \in Workers : req[w].pc = "idle"

\* Each request is handled to completion before the next is received.
Next ==
  \/ NoneInFlight /\ Index
  \/ NoneInFlight /\ Register
  \/ RegisterCommit
  \/ NoneInFlight /\ Login
  \/ NoneInFlight /\ Logout
  \/ NoneInFlight /\ TeacherDashboard
  \/ NoneInFlight /\ StudentDashboard
  \/ NoneInFlight /\ CreatePrompt
  \/ NoneInFlight /\ Prompts
  \/ NoneInFlight /\ ViewPrompt
  \/ NoneInFlight /\ GradeResponses
  \/ NoneInFlight /\ GradeResponse
  \/ GradeCommit
  \/ NoneInFlight /\ Leaderboard

Spec == Init /\ [][Next]_vars

\* Two registrations and two gradings interleave.  The run starts from a store
\* that Spec reaches: teacher a (logged in) owns a prompt that student s has
\* answered.
TeacherA ==
  [id |-> 1, name |-> "a", password_hash |-> PasswordHash("p"),
   user_type |-> "Teacher", year_level |-> None]

StudentS(id, name) ==
  [id |-> id, name |-> name, password_hash |-> PasswordHash("p"),
   user_type |-> "Student", year_level |-> Some(7)]

PromptOfA ==
  [id |-> 1, title |-> "t", content |-> "c", subject |-> "General", teacher_id |-> 1]

ResponseTo(id, student_id) ==
  [id |-> id, content |-> "r", prompt_id |-> 1, student_id |-> student_id]

RaceStore ==
  /\ users = {TeacherA, StudentS(2, "s")}
  /\ prompts = {PromptOfA}
  /\ responses = {ResponseTo(1, 2)}
  /\ grades = {}

RaceInit ==
  /\ RaceStore
  /\ session = 1
  /\ req = [w \in Workers |-> Idle]
  /\ last = NoResponse

RaceNext == Register \/ RegisterCommit \/ GradeResponse \/ GradeCommit

RaceSpec == RaceInit /\ [][RaceNext]_vars

\* Rows are also deleted through the session (db.session.delete and commit), one
\* request at a time, from the store of RaceInit.
CascadeNext ==
  \/ NoneInFlight /\ Login
  \/ NoneInFlight /\ CreatePrompt
  \/ NoneInFlight /\ ViewPrompt
  \/ NoneInFlight /\ GradeResponse
  \/ GradeCommit
  \/ DeletePrompt
  \/ DeleteUser

CascadeSpec == RaceInit /\ [][CascadeNext]_vars

\* The leaderboard over the stores in which students s and s2 have answered
\* the prompt of teacher a up to MaxSeedResponses times, each answer graded
\* or not.
SeedScores == {0, 1, 80, 90, 100}

SeedGrades(graded) ==
  { [id |-> Cardinality({j \in 1..i : graded[j] # None}), score |-> graded[i][1],
     feedback_text |-> "", response_id |-> i] :
    i \in {k \in DOMAIN graded : graded[k] # None} }

LbInit ==
  /\ users = {TeacherA, StudentS(2, "s"), StudentS(3, "s2")}
  /\ prompts = {PromptOfA}
  /\ \E n \in 0..MaxSeedResponses :
       \E student \in [1..n -> {2, 3}],
          graded \in [1..n -> {None} \cup {Some(x) : x \in SeedScores}] :
         /\ responses = {ResponseTo(i, student[i]) : i \in 1..n}
         /\ grades = SeedGrades(graded)
  /\ session = 2
  /\ req = [w \in Workers |-> Idle]
  /\ last = NoResponse

LbNext == Leaderboard \/ Logout \/ Login

LbSpec == LbInit /\ [][LbNext]_vars

\* ================================================================= claims
\* the owning teacher of the parent prompt of a response, and the rows of a
\* response, read off the tables
OwningTeacher(response_id) ==
  LET r == CHOOSE x \in responses : x.id = response_id
  IN (CHOOSE p \in prompts : p.id = r.prompt_id).teacher_id

GradeRows(table, response_id) == {g \in table : g.response_id = response_id}

\* the step answers a request to one of the routes, or a worker takes up or
\* finishes a request: true of every step of a handler of these routes
Handles(routes) == last'.op \in routes \/ \E w \in Workers : req'[w].op \in routes

\* ------------------------------------------------------------------- C1
\* C1: When gradings of a response run one after another, every successful
\* grading leaves exactly one Grade row for the response, holding the score
\* and the feedback of that grading; a grading of a response that has a row
\* updates that row and adds none.
C1_UpsertKeepsOneRow ==
  [][\A w \in Workers :
       (grade_commit(w) /\ last'.kind = "ok") =>
         LET before == GradeRows(grades, req[w].rid)
             after == GradeRows(grades', req[w].rid)
         IN /\ Cardinality(after) = 1
            /\ \A g \in after : g.score = req[w].score /\ g.feedback_text = req[w].feedback
            /\ before # {} => /\ Cardinality(grades') = Cardinality(grades)
                              /\ {g.id : g \in after} = {g.id : g \in before}]_vars

\* a second grading of a response has updated its row
C1_Witness ==
  /\ last.op = "grade_response" /\ last.flash = "Grade updated."
  /\ \E g \in grades : g.score = 100 /\ g.feedback_text = "f"

\* ------------------------------------------------------------------- C2
\* C2: When two gradings of a response interleave, the response has at most
\* one Grade, and that Grade holds the score and the feedback that one single
\* request submitted, never the score of one and the feedback of another.
SubmittedPairs ==
  { <<ParseInt(f.score)[1], OrElse(f.feedback, "")>> : f \in {x \in GradeForms : ValidScore(x.score)} }

C2_AtMostOneGrade ==
  \A r \in responses : Cardinality(GradeRows(grades, r.id)) <= 1

C2_GradeFromOneRequest ==
  /\ C2_AtMostOneGrade
  /\ \A g \in grades : <<g.score, g.feedback_text>> \in SubmittedPairs

\* ------------------------------------------------------------------- C3
\* C3: A grading by the owning teacher of an existing response goes through
\* exactly when the score parses as an integer from 0 to 100; otherwise it is
\* refused with ValidationError and the Grades stay as they are; every stored
\* Grade has a score from 0 to 100.
ScoreOk(score_raw) ==
  \E n \in 0..100 : ParseInt(score_raw) = Some(n)

C3_ScoreBounds ==
  /\ [](\A g \in grades : g.score \in 0..100)
  /\ [][Handles({"grade_response"}) =>
        \A w \in Workers, r \in ResponseIds, f \in GradeForms :
          ( /\ UserType = "Teacher"
            /\ \E x \in responses : x.id = r
            /\ OwningTeacher(r) = session
            /\ grade_response(w, r, f) ) =>
          IF ScoreOk(f.score)
          THEN req'[w].pc = "commit" /\ req'[w].score = ParseInt(f.score)[1]
          ELSE /\ last'.kind = "ValidationError" /\ last'.op = "grade_response"
               /\ UNCHANGED <<grades, req>>]_vars
  /\ [][\A w \in Workers : grade_commit(w) => last'.kind = "ok"]_vars

\* a grading was refused for its score while a Grade of 100 is stored
C3_Witness ==
  /\ last.op = "grade_response" /\ last.kind = "ValidationError"
  /\ \E g \in grades : g.score = 100

\* ------------------------------------------------------------------- C4
\* C4: A teacher who does not own a prompt is refused with Forbidden when he
\* lists its responses for grading and when he grades one of its responses,
\* whatever the form, and the Grades stay as they are; a Grade is created or
\* updated only by the owning teacher of the parent prompt of its response.
C4_OnlyOwnerGrades ==
  [][/\ Handles({"grade_responses"}) => \A p \in PromptIds :
          ( /\ UserType = "Teacher"
            /\ \E x \in prompts : x.id = p /\ x.teacher_id # session
            /\ grade_responses(p) ) =>
          /\ last'.kind = "Forbidden"
          /\ UNCHANGED grades
     /\ Handles({"grade_response"}) => \A w \in Workers, r \in ResponseIds, f \in GradeForms :
          ( /\ UserType = "Teacher"
            /\ \E x \in responses : x.id = r
            /\ OwningTeacher(r) # session
            /\ grade_response(w, r, f) ) =>
          /\ last'.kind = "Forbidden"
          /\ UNCHANGED <<grades, req>>
     /\ grades' # grades =>
          \E w \in Workers : /\ grade_commit(w)
                             /\ req[w].user = OwningTeacher(req[w].rid)
                             /\ \E u \in users : u.id = req[w].user /\ u.user_type = "Teacher"]_vars

\* a teacher was refused the grading of a response of another teacher's prompt
C4_Witness ==
  /\ last.op = "grade_response" /\ last.kind = "Forbidden" /\ last.to = "teacher_dashboard"
  /\ UserType = "Teacher"
  /\ \E r \in responses : OwningTeacher(r.id) # session

\* ------------------------------------------------------------------- C5
\* C5: A Student or an unauthenticated caller of a Teacher-only route, and a
\* Teacher or an unauthenticated caller of a Student-only route, is refused
\* with Forbidden by a redirect, and Users, Prompts, Responses and Grades stay
\* as they are.
TeacherOnly ==
  /\ Handles({"teacher_dashboard", "create_prompt", "grade_responses", "grade_response"})
  /\ (TeacherDashboard \/ CreatePrompt \/ GradeResponses \/ GradeResponse)

StudentOnly ==
  /\ Handles({"student_dashboard", "prompts", "view_prompt"})
  /\ (StudentDashboard \/ Prompts \/ ViewPrompt)

C5_RoleGuard ==
  [][( \/ UserType \in {"Student", ""} /\ TeacherOnly
       \/ UserType \in {"Teacher", ""} /\ StudentOnly ) =>
     /\ last'.kind = "Forbidden"
     /\ last'.to \in {"index", "login"}
     /\ UNCHANGED <<store, session, req>>]_vars

\* a Student was turned away from create_prompt, with a prompt in the store
C5_Witness ==
  /\ last.op = "create_prompt" /\ last.kind = "Forbidden" /\ last.to = "index"
  /\ UserType = "Student"
  /\ prompts # {}

\* ------------------------------------------------------------------- C6
\* C6: In any interleaving of registrations, a registration of a name that
\* belongs to a User is refused with DuplicateName and adds no row; no two
\* Users share a name.
C6_UniqueNames ==
  \A u, v \in users : u.name = v.name => u = v

C6_DuplicateNameRefused ==
  /\ [](C6_UniqueNames)
  /\ [][\A w \in Workers :
          (register_commit(w) /\ \E u \in users : u.name = req[w].name) =>
            last'.kind = "DuplicateName" /\ users' = users]_vars
  /\ [][Handles({"register"}) => \A w \in Workers, f \in RegisterForms :
          ( /\ ~YearLevel(f).fault
            /\ \E u \in users : u.name = Strip(OrElse(f.name, "")) /\ u.name # ""
            /\ register(w, "POST", f) ) =>
            last'.kind \in {"DuplicateName", "ValidationError"} /\ users' = users]_vars

\* ------------------------------------------------------------------- C7
\* C7: The leaderboard has exactly one entry for each Student with at least
\* one Grade and none for anyone else; the average of an entry is the mean of
\* the student's scores; the entries are in non-increasing order of average
\* and their ranks are 1..N in that order.
Graded == {u \in users : u.user_type = "Student" /\ GradesOf(u) # {}}

EntryOf(name) == CHOOSE u \in users : u.name = name

BoardShape(board) ==
  /\ Len(board) = Cardinality(Graded)
  /\ {board[i].name : i \in 1..Len(board)} = {u.name : u \in Graded}
  /\ \A i \in 1..Len(board) : board[i].rank = i
  /\ \A i, j \in 1..Len(board) : i < j => board[i].avg_score >= board[j].avg_score

\* the average shown, in hundredths, is the exact mean
C7_AverageIsMean ==
  (last.op = "leaderboard" /\ last.kind = "ok") =>
    /\ BoardShape(last.body)
    /\ \A i \in 1..Len(last.body) :
         LET G == GradesOf(EntryOf(last.body[i].name))
         IN last.body[i].avg_score * Cardinality(G) = 100 * SumScores(G)

\* C7 as amended: the average shown is the mean rounded to two decimal places
\* (the hundredth nearest to the mean)
C7_AverageIsRoundedMean ==
  (last.op = "leaderboard" /\ last.kind = "ok") =>
    /\ BoardShape(last.body)
    /\ \A i \in 1..Len(last.body) :
         LET G == GradesOf(EntryOf(last.body[i].name))
             d == 100 * last.body[i].avg_score * Cardinality(G) - 10000 * SumScores(G)
         IN /\ d <= 50 * Cardinality(G)
            /\ 0 - d <= 50 * Cardinality(G)

\* grades [80, 90] and [100]: rank 1 shows 100.00 and rank 2 shows 85.00,
\* while a third user without grades is absent
C7_Witness ==
  /\ last.op = "leaderboard" /\ last.kind = "ok"
  /\ Len(last.body) = 2
  /\ last.body[1].avg_score = 10000 /\ last.body[2].avg_score = 8500
  /\ Cardinality(grades) = 3

\* ------------------------------------------------------------------- C8
\* C8: Every request ends in success or in one of ValidationError, NotFound,
\* Forbidden, InvalidCredentials and DuplicateName; none ends in a fault.
C8_NoUnhandledFault ==
  last.kind \in {"", "ok", "ValidationError", "NotFound", "Forbidden",
                 "InvalidCredentials", "DuplicateName"}

\* ------------------------------------------------------------------- C9
\* C9: After the deletion of a Prompt or of a User, its Responses and their
\* Grades, and the Prompts and Responses the User owns, are gone: no Response
\* refers to a missing Prompt or User, no Prompt to a missing User and no
\* Grade to a missing Response.
C9_NoDanglingRows ==
  /\ \A r \in responses : /\ \E p \in prompts : p.id = r.prompt_id
                          /\ \E u \in users : u.id = r.student_id
  /\ \A p \in prompts : \E u \in users : u.id = p.teacher_id
  /\ \A g \in grades : \E r \in responses : r.id = g.response_id

\* a response was graded and a deletion has removed it with its grade
C9_Witness ==
  /\ last.op = "grade_response" /\ last.kind = "ok"
  /\ responses = {} /\ grades = {}

\* ------------------------------------------------------------------ C10
\* C10: For a logged-in user, the redirect that GET / answers leads to a
\* dashboard that the user's role guard lets through: the chain index ->
\* dashboard -> index does not go round.
C10_IndexReachesDashboard ==
  IsAuthenticated =>
    /\ IndexAnswer.to \in {"teacher_dashboard", "student_dashboard"}
    /\ DashboardAnswer(IndexAnswer.to).kind = "ok"
    /\ DashboardAnswer(IndexAnswer.to).to = ""

====
